---------------------------- MODULE Spec2Model ----------------------------
(***************************************************************************)
(* A model of the Valentine proposal page: the intro gate (IntroHandler,   *)
(* js/main.js) and the penguin easter egg tracker (PenguinTracker,         *)
(* js/penguins.js), together with the browser state they read and write:   *)
(* the localStorage entry 'penguinsFound', the inline styles and classes   *)
(* of the elements they touch, the click listeners and the pending         *)
(* timers.  Every handler runs to completion, so each is one action.       *)
(*                                                                         *)
(* Left out: the IntersectionObserver fade-ins (observeElements) and the   *)
(* decorative nodes appended by showPenguinFoundFeedback and               *)
(* showCompletionCelebration, which no handler ever reads.                 *)
(***************************************************************************)
EXTENDS Integers, Sequences, FiniteSets, TLC

(***************************************************************************)
(* Bounds of the model.                                                    *)
(***************************************************************************)
\* most clicks on the No button that are followed in one session
MaxNoClicks == 32
\* most page reloads (reset() calls) that are followed
MaxReloads == 1
\* most completion signals counted in one session
MaxSignals == 2
\* most PenguinTracker instances constructed in one session
MaxTrackers == 2
\* longest array in a storage value written by another party
MaxForeignLen == 2

(***************************************************************************)
(* Identifiers.                                                            *)
(***************************************************************************)
\* this.penguinIds
penguinIds == <<"penguin1", "penguin2", "penguin3", "penguin4", "penguin5">>

Range(s) == {s[i] : i \in 1..Len(s)}

Universe == Range(penguinIds)

\* document.getElementById(id) for the penguin elements: the page has one
\* element per identifier of penguinIds and none for any other id
HasElement(id) == id \in Universe

(***************************************************************************)
(* A JS Set keeps its elements in insertion order; it is modelled as a     *)
(* sequence without repetitions.                                           *)
(***************************************************************************)
SetHas(s, x) == x \in Range(s)

\* a set that loses every insertion
SetAddLost(s, x) == s

\* set.add(x)
SetAdd(s, x) == IF SetHas(s, x) THEN s ELSE Append(s, x)

RECURSIVE NewSet(_)
\* new Set(iterable): the elements in order, later repetitions dropped
NewSet(arr) ==
  IF arr = <<>> THEN <<>>
  ELSE LET front == NewSet(SubSeq(arr, 1, Len(arr) - 1))
       IN  SetAdd(front, arr[Len(arr)])

\* Array.from(set)
ArrayFrom(s) == s

SetSize(s) == Len(s)

(***************************************************************************)
(* JSON texts are sequences of tokens.                                     *)
(***************************************************************************)
LBracket == [k |-> "punct", v |-> "["]
RBracket == [k |-> "punct", v |-> "]"]
Comma    == [k |-> "punct", v |-> ","]
Junk     == [k |-> "junk", v |-> "{"]
NullTok  == [k |-> "null", v |-> "null"]

IsNumber(x) == x = "#1"

\* the literal of one array element: a quoted string, or a number
Literal(x) == IF IsNumber(x) THEN [k |-> "number", v |-> x]
              ELSE [k |-> "string", v |-> x]

IsLiteral(tok) == tok.k \in {"string", "number"}

RECURSIVE Elements(_)
\* the elements of an array, separated by commas
Elements(arr) ==
  IF arr = <<>> THEN <<>>
  ELSE IF Len(arr) = 1 THEN <<Literal(arr[1])>>
  ELSE Elements(SubSeq(arr, 1, Len(arr) - 1)) \o <<Comma, Literal(arr[Len(arr)])>>

\* the elements joined by commas, without the brackets
JSONjoin(arr) == Elements(arr)

\* JSON.stringify(array)
JSONstringify(arr) == <<LBracket>> \o Elements(arr) \o <<RBracket>>

\* what JSON.parse makes of a text: an array, a number, null, or a SyntaxError
ParseError == [kind |-> "error", arr |-> <<>>]

RECURSIVE ParseElements(_, _)
\* toks is what follows "[" or ","; acc is the array so far
ParseElements(toks, acc) ==
  IF Len(toks) < 2 \/ ~IsLiteral(toks[1]) THEN ParseError
  ELSE LET acc2 == Append(acc, toks[1].v)
       IN  IF toks[2] = RBracket
           THEN IF Len(toks) = 2 THEN [kind |-> "array", arr |-> acc2] ELSE ParseError
           ELSE IF toks[2] = Comma
           THEN ParseElements(SubSeq(toks, 3, Len(toks)), acc2)
           ELSE ParseError

JSONparse(text) ==
  IF text = <<>> THEN ParseError
  ELSE IF text = <<NullTok>> THEN [kind |-> "null", arr |-> <<>>]
  ELSE IF Len(text) = 1 /\ text[1].k = "number" THEN [kind |-> "number", arr |-> <<>>]
  ELSE IF text[1] # LBracket THEN ParseError
  ELSE IF text = <<LBracket, RBracket>> THEN [kind |-> "array", arr |-> <<>>]
  ELSE ParseElements(SubSeq(text, 2, Len(text)), <<>>)

(***************************************************************************)
(* localStorage: the entry 'penguinsFound' is absent or holds a text.      *)
(***************************************************************************)
Absent == <<[k |-> "absent", v |-> "null"]>>

\* the empty string, which getItem returns as a falsy value
EmptyText == <<>>


\* what the try block of loadProgress does: it returns a set, falls through
\* to the final return, or raises
TryLoad(st, throws) ==
  IF throws THEN [exc |-> TRUE, returned |-> FALSE, val |-> <<>>]
  ELSE IF st = Absent \/ st = EmptyText
       THEN [exc |-> FALSE, returned |-> FALSE, val |-> <<>>]
  ELSE LET parsed == JSONparse(st)
       IN  IF parsed.kind = "error" \/ parsed.kind = "number"
           THEN [exc |-> TRUE, returned |-> FALSE, val |-> <<>>]
           ELSE [exc |-> FALSE, returned |-> TRUE, val |-> NewSet(parsed.arr)]

\* loadProgress(): the set it returns, and whether an exception leaves it
loadProgress(st, throws) ==
  LET t == TryLoad(st, throws)
  IN  IF t.exc THEN [exc |-> FALSE, val |-> <<>>]
      ELSE IF t.returned THEN [exc |-> FALSE, val |-> t.val]
      ELSE [exc |-> FALSE, val |-> <<>>]

\* a save that never writes
TrySaveStale(found, st, throws) == [exc |-> throws, st |-> st]

\* what the try block of saveProgress does: it writes the entry, or raises
TrySave(found, st, throws) ==
  IF throws THEN [exc |-> TRUE, st |-> st]
  ELSE [exc |-> FALSE, st |-> JSONstringify(ArrayFrom(found))]

\* saveProgress without its catch
saveProgressUncaught(found, st, throws) == TrySave(found, st, throws)

\* saveProgress(): the entry afterwards, and whether an exception leaves it
saveProgress(found, st, throws) ==
  [TrySave(found, st, throws) EXCEPT !.exc = FALSE]

(***************************************************************************)
(* yesScale is an IEEE 754 double.  A double between 1 and 32 is a whole   *)
(* number of units of 2^-54, kept as hi * 2^29 + lo.                       *)
(***************************************************************************)
Base == 536870912

One == [hi |-> 33554432, lo |-> 0]

\* the double nearest to 0.3
Point3 == [hi |-> 10066329, lo |-> 322122547]

\* the thresholds 4 and 10 of handleNo
DisableThreshold == [hi |-> 134217728, lo |-> 0]

OnlyOptionThreshold == [hi |-> 335544320, lo |-> 0]

\* the spacing of the doubles around a value with this high part
Ulp(hi) == IF hi < 67108864 THEN 4
           ELSE IF hi < 134217728 THEN 8
           ELSE IF hi < 268435456 THEN 16
           ELSE IF hi < 536870912 THEN 32
           ELSE 64

\* an addition that adds nothing
AddNothing(y) == y

\* y + 0.3, rounded to the nearest double, ties to even
AddPoint3(y) ==
  LET sumLo == y.lo + Point3.lo
      lo0   == sumLo % Base
      hi0   == y.hi + Point3.hi + (sumLo \div Base)
      ulp   == Ulp(hi0)
      r     == lo0 % ulp
      q     == lo0 \div ulp
      up    == 2 * r > ulp \/ (2 * r = ulp /\ q % 2 = 1)
      lo1   == IF up THEN lo0 - r + ulp ELSE lo0 - r
  IN  [hi |-> hi0 + (lo1 \div Base), lo |-> lo1 % Base]

\* a > b
Greater(a, b) == a.hi > b.hi \/ (a.hi = b.hi /\ a.lo > b.lo)

\* this.noMessages
noMessages == <<"No", "Are you sure??", "Really sure??", "Positive??",
                "I'll be really sad...", "Please?">>

(***************************************************************************)
(* State.                                                                  *)
(***************************************************************************)
VARIABLES
  storage,          \* the localStorage entry 'penguinsFound'
  storageThrows,    \* localStorage is unavailable: every access raises
  page,             \* "loading", "ready", or "reloading" after location.reload()
  reloads,          \* reloads so far
  noClickCount,     \* IntroHandler.noClickCount
  yesScale,         \* IntroHandler.yesScale
  btnNo,            \* text and inline style of the No button
  btnYes,           \* inline style and classes of the Yes button
  introSection,     \* inline style of the intro section
  mainContent,      \* class list of the main content
  body,             \* inline style and classes of the body
  activationTimers, \* pending 100 ms timers of handleYes
  revealTimers,     \* pending 300 ms timers of allPenguinsFound
  scrollTimers,     \* pending 200 ms timers of revealSecretSection
  trackers,         \* the PenguinTracker instances constructed, in order
  penguinTracker,   \* the global penguinTracker: an index in trackers, 0 if undefined
  windowPenguinTracker, \* window.penguinTracker, likewise
  listeners,        \* per penguin element, the trackers whose handler is attached
  classes,          \* per penguin element, its classes
  penguinCount,     \* text of #penguinCount, -1 for the text of the markup
  counterShown,     \* #penguinCounter has the class show
  secretSection,    \* classes and scroll state of #secretSection
  completionSignals,\* calls of allPenguinsFound in this session
  reveals,          \* calls of revealSecretSection in this session
  discovered,       \* the identifiers handlePenguinClick was called with
  loaded,           \* what the last loadProgress read and returned, and whether
                    \* saveProgress ran right before it
  lastWrite,        \* who wrote the entry last: "none", "removeItem", "saveProgress"
                    \* or "foreign"
  stray,            \* whether a click landed on a penguin before the tracker was
                    \* constructed ("early") and, since then, on a found penguin
                    \* ("found") or on any penguin once all five were found
  uncaught          \* the last handler ended with an uncaught exception

envVars == <<storage, storageThrows, page, reloads>>

gateVars == <<noClickCount, yesScale, btnNo, btnYes, introSection, mainContent, body>>

timerVars == <<activationTimers, revealTimers, scrollTimers>>

trackerVars == <<trackers, penguinTracker, windowPenguinTracker, listeners, classes,
                 penguinCount, counterShown>>

revealVars == <<secretSection, completionSignals, reveals>>

historyVars == <<discovered, loaded, lastWrite, stray, uncaught>>

vars == <<envVars, gateVars, timerVars, trackerVars, revealVars, historyVars>>

(***************************************************************************)
(* The document as the markup gives it, before any script has run.         *)
(***************************************************************************)
MarkupBtnNo == [textContent |-> "markup", opacity |-> "", pointerEvents |-> "",
                cursor |-> "", display |-> ""]

MarkupBtnYes == [transform |-> One, zIndex |-> "", growing |-> FALSE,
                 position |-> "", fullScreen |-> FALSE]

MarkupIntro == [opacity |-> "", visibility |-> "", pointerEvents |-> ""]

MarkupSecret == [revealed |-> FALSE, scrolledTo |-> FALSE]

\* values an earlier session, or anyone else, may have left in the entry
LeftoverTexts ==
  { Absent,
    JSONstringify(<<"penguin1", "penguin3">>),
    JSONstringify(penguinIds),
    JSONstringify(<<"ghost">>),
    <<Junk>> }

\* nothing has called loadProgress yet
NotLoaded == [read |-> FALSE, afterSave |-> FALSE, from |-> Absent, val |-> <<>>]

Init ==
  /\ storage \in LeftoverTexts
  /\ storageThrows \in BOOLEAN
  /\ page = "loading"
  /\ reloads = 0
  /\ noClickCount = 0
  /\ yesScale = One
  /\ btnNo = MarkupBtnNo
  /\ btnYes = MarkupBtnYes
  /\ introSection = MarkupIntro
  /\ mainContent = [hidden |-> TRUE]
  /\ body = [overflow |-> "", jsLoaded |-> FALSE]
  /\ activationTimers = 0
  /\ revealTimers = 0
  /\ scrollTimers = 0
  /\ trackers = <<>>
  /\ penguinTracker = 0
  /\ windowPenguinTracker = 0
  /\ listeners = [id \in Universe |-> <<>>]
  /\ classes = [id \in Universe |-> {}]
  /\ penguinCount = -1
  /\ counterShown = FALSE
  /\ secretSection = MarkupSecret
  /\ completionSignals = 0
  /\ reveals = 0
  /\ discovered = {}
  /\ loaded = NotLoaded
  /\ lastWrite = "none"
  /\ stray = "none"
  /\ uncaught = FALSE

(***************************************************************************)
(* The intro gate.  A click reaches a button's listener when the button is *)
(* rendered (the intro section, which holds both buttons, is not hidden    *)
(* and the button is displayed) and, for a pointer click, when no          *)
(* pointer-events: none applies to it.  Keyboard activation of a focused   *)
(* button ignores pointer-events.                                          *)
(***************************************************************************)
ClickSources == {"pointer", "keyboard"}

Rendered(display) == introSection.visibility # "hidden" /\ display # "none"

NoReaches(src) ==
  /\ Rendered(btnNo.display)
  /\ src = "pointer" => introSection.pointerEvents # "none" /\ btnNo.pointerEvents # "none"

YesReaches(src) ==
  /\ Rendered("")
  /\ src = "pointer" => introSection.pointerEvents # "none"

\* makeYesOnlyOption() applied to the two buttons
makeYesOnlyOption(bs) ==
  [no  |-> [bs.no EXCEPT !.display = "none"],
   yes |-> [bs.yes EXCEPT !.position = "fixed", !.fullScreen = TRUE,
                          !.zIndex = "9999", !.transform = One]]

\* handleNo()
handleNo ==
  LET n    == noClickCount + 1
      y    == AddPoint3(yesScale)
      no1  == IF n <= Len(noMessages)
              THEN [btnNo EXCEPT !.textContent = noMessages[n]] ELSE btnNo
      yes1 == [btnYes EXCEPT !.transform = y, !.zIndex = "11", !.growing = TRUE]
      no2  == IF Greater(y, DisableThreshold)
              THEN [no1 EXCEPT !.opacity = "0.3", !.pointerEvents = "none",
                               !.cursor = "not-allowed"]
              ELSE no1
      bs   == IF Greater(y, OnlyOptionThreshold)
              THEN makeYesOnlyOption([no |-> no2, yes |-> yes1])
              ELSE [no |-> no2, yes |-> yes1]
  IN  /\ noClickCount' = n
      /\ yesScale' = y
      /\ btnNo' = bs.no
      /\ btnYes' = bs.yes

\* a click on the No button made with a pointer or with the keyboard
ClickNoBy(src) ==
  /\ page = "ready"
  /\ noClickCount < MaxNoClicks
  /\ NoReaches(src)
  /\ handleNo
  /\ uncaught' = FALSE
  /\ UNCHANGED <<envVars, introSection, mainContent, body, timerVars, trackerVars,
                 revealVars, discovered, loaded, lastWrite, stray>>

ClickNo == \E src \in ClickSources : ClickNoBy(src)

\* handleYes fading the intro out without hiding it
handleYesShown ==
  /\ introSection' = [introSection EXCEPT !.opacity = "0"]
  /\ body' = [body EXCEPT !.overflow = "auto"]
  /\ mainContent' = [hidden |-> FALSE]
  /\ activationTimers' = activationTimers + 1

\* handleYes()
handleYes ==
  /\ introSection' = [opacity |-> "0", visibility |-> "hidden", pointerEvents |-> "none"]
  /\ body' = [body EXCEPT !.overflow = "auto"]
  /\ mainContent' = [hidden |-> FALSE]
  /\ activationTimers' = activationTimers + 1

\* the click listener of the Yes button runs
DispatchYes ==
  /\ page = "ready"
  /\ activationTimers + Len(trackers) < MaxTrackers
  /\ handleYes
  /\ uncaught' = FALSE
  /\ UNCHANGED <<envVars, noClickCount, yesScale, btnNo, btnYes, revealTimers,
                 scrollTimers, trackerVars, revealVars, discovered, loaded, lastWrite, stray>>

\* a click on the Yes button made with a pointer or with the keyboard
ClickYes ==
  /\ \E src \in ClickSources : YesReaches(src)
  /\ DispatchYes

(***************************************************************************)
(* The tracker.  The methods of PenguinTracker are operators on a record   *)
(* w of the state they read and write, t being the index of the instance.  *)
(***************************************************************************)
World ==
  [trackers |-> trackers, storage |-> storage, listeners |-> listeners,
   classes |-> classes, penguinCount |-> penguinCount, counterShown |-> counterShown,
   revealTimers |-> revealTimers, completionSignals |-> completionSignals,
   discovered |-> discovered, lastWrite |-> lastWrite, uncaught |-> FALSE]

\* write the record back to the state
Becomes(w) ==
  /\ trackers' = w.trackers
  /\ storage' = w.storage
  /\ listeners' = w.listeners
  /\ classes' = w.classes
  /\ penguinCount' = w.penguinCount
  /\ counterShown' = w.counterShown
  /\ revealTimers' = w.revealTimers
  /\ completionSignals' = w.completionSignals
  /\ discovered' = w.discovered
  /\ lastWrite' = w.lastWrite
  /\ uncaught' = w.uncaught

\* a removal that removes nothing
WithoutNothing(ts, t) == ts

\* removeEventListener('click', handler): drop the one entry of instance t
RECURSIVE Without(_, _)
Without(ts, t) ==
  IF ts = <<>> THEN <<>>
  ELSE IF Head(ts) = t THEN Tail(ts)
  ELSE <<Head(ts)>> \o Without(Tail(ts), t)

\* updatePenguinCountDisplay(count), with showPenguinCounter()
updatePenguinCountDisplay(w, count) ==
  [w EXCEPT !.penguinCount = count,
            !.counterShown = IF count > 0 THEN TRUE ELSE @]

\* updateDisplay()
updateDisplay(w, t) ==
  updatePenguinCountDisplay(w, SetSize(w.trackers[t].foundPenguins))

\* a completion that schedules no reveal
allPenguinsFoundSilent(w) == [w EXCEPT !.completionSignals = @ + 1]

\* allPenguinsFound(): schedules the reveal
allPenguinsFound(w) ==
  [w EXCEPT !.revealTimers = @ + 1, !.completionSignals = @ + 1]

\* complete one penguin early
IsCompleteEarly(found) == SetSize(found) >= Len(penguinIds) - 1

\* this.foundPenguins.size === this.penguinIds.length
IsComplete(found) == SetSize(found) = Len(penguinIds)

\* checkForCompletion()
checkForCompletion(w, t) ==
  IF IsComplete(w.trackers[t].foundPenguins) THEN allPenguinsFound(w) ELSE w

\* initPenguins(): mark the found penguins, attach a handler to the others
RECURSIVE initPenguins(_, _, _)
initPenguins(w, t, ids) ==
  IF ids = <<>> THEN w
  ELSE LET id == Head(ids)
           w1 == IF ~HasElement(id) THEN w
                 ELSE IF SetHas(w.trackers[t].foundPenguins, id)
                 THEN [w EXCEPT !.classes[id] = @ \cup {"found"}]
                 ELSE [w EXCEPT !.trackers[t].penguinHandlers = @ \cup {id},
                                !.listeners[id] = Append(@, t)]
       IN  initPenguins(w1, t, Tail(ids))

\* new PenguinTracker()
Construct(w) ==
  LET t  == Len(w.trackers) + 1
      l  == loadProgress(w.storage, storageThrows)
      w1 == [w EXCEPT !.trackers =
                 Append(@, [foundPenguins |-> l.val, penguinHandlers |-> {}])]
  IN  IF l.exc THEN [w EXCEPT !.uncaught = TRUE]
      ELSE updateDisplay(initPenguins(w1, t, penguinIds), t)

(***************************************************************************)
(* Page load: both scripts run on a fresh document.  penguins.js declares  *)
(* penguinTracker, copies its (undefined) value to window and runs         *)
(* initPenguinSystem; initPage removes the stored entry, locks scrolling   *)
(* and constructs IntroHandler.                                            *)
(***************************************************************************)
\* a removal that leaves the entry in place
removeItemKept(st, throws) == st

\* localStorage.removeItem('penguinsFound') inside initPage's try
removeItem(st, throws) == IF throws THEN st ELSE Absent

\* the document of a fresh load, the entry removed
FreshWorld ==
  [trackers |-> <<>>, storage |-> removeItem(storage, storageThrows),
   listeners |-> [id \in Universe |-> <<>>], classes |-> [id \in Universe |-> {}],
   penguinCount |-> -1, counterShown |-> FALSE, revealTimers |-> 0,
   completionSignals |-> 0, discovered |-> {},
   lastWrite |-> IF storageThrows THEN lastWrite ELSE "removeItem", uncaught |-> FALSE]

\* a tracker constructed as soon as the page loads
initPenguinSystemEager(w) == Construct(w)

\* initPenguinSystem(): constructs nothing
initPenguinSystem(w) == w

initPage ==
  /\ page \in {"loading", "reloading"}
  /\ page' = "ready"
  /\ body' = [overflow |-> "hidden", jsLoaded |-> FALSE]
  /\ noClickCount' = 0
  /\ yesScale' = One
  /\ btnNo' = MarkupBtnNo
  /\ btnYes' = MarkupBtnYes
  /\ introSection' = MarkupIntro
  /\ mainContent' = [hidden |-> TRUE]
  /\ activationTimers' = 0
  /\ scrollTimers' = 0
  /\ LET w == initPenguinSystem(FreshWorld)
     IN  /\ Becomes(w)
         /\ penguinTracker' = Len(w.trackers)
  /\ windowPenguinTracker' = 0
  /\ secretSection' = MarkupSecret
  /\ reveals' = 0
  /\ loaded' = NotLoaded
  /\ stray' = "none"
  /\ UNCHANGED <<storageThrows, reloads>>

\* a handler that stays attached
removeHandlerKept(w, t, id) == w

\* the handler of instance t is removed from the element and from penguinHandlers
removeHandler(w, t, id) ==
  IF id \in w.trackers[t].penguinHandlers
  THEN [w EXCEPT !.listeners[id] = Without(@, t),
                 !.trackers[t].penguinHandlers = @ \ {id}]
  ELSE w

\* handlePenguinClick(penguinId, event) of instance t
handlePenguinClick(w, t, id) ==
  LET found == SetAdd(w.trackers[t].foundPenguins, id)
      saved == saveProgress(found, w.storage, storageThrows)
      w1 == [w EXCEPT !.trackers[t].foundPenguins = found,
                      !.discovered = @ \cup {id}]
      w2 == [w1 EXCEPT !.storage = saved.st,
                       !.lastWrite = IF storageThrows THEN @ ELSE "saveProgress"]
  IN  IF saved.exc THEN [w1 EXCEPT !.uncaught = TRUE]
      \* createCelebrationEffect(null) raises a TypeError
      ELSE IF ~HasElement(id) THEN [w2 EXCEPT !.uncaught = TRUE]
      ELSE LET w3 == [w2 EXCEPT !.classes[id] = @ \cup {"penguin-found-animation"}]
               w4 == removeHandler(w3, t, id)
               \* disablePenguinInteraction(container)
               w5 == [w4 EXCEPT !.classes[id] = @ \cup {"found"}]
           IN  checkForCompletion(updateDisplay(w5, t), t)

\* the click listeners of one element run in the order they were attached
RECURSIVE Dispatch(_, _, _)
Dispatch(w, ts, id) ==
  IF ts = <<>> THEN w
  ELSE Dispatch(handlePenguinClick(w, Head(ts), id), Tail(ts), id)

\* a click on a penguin element
ClickPenguin ==
  /\ page = "ready"
  /\ completionSignals < MaxSignals
  /\ \E id \in Universe :
        /\ Becomes(Dispatch(World, listeners[id], id))
        /\ stray' = IF trackers = <<>> THEN "early"
                    ELSE IF \A p \in Universe : "found" \in classes[p] THEN "complete"
                    ELSE IF "found" \in classes[id] /\ stray = "none" THEN "found"
                    ELSE stray
  /\ UNCHANGED <<storageThrows, page, reloads, gateVars, activationTimers, scrollTimers,
                 penguinTracker, windowPenguinTracker, secretSection, reveals, loaded>>

\* the 100 ms callback of handleYes: shows the penguins and runs
\* activatePenguins(), which constructs the tracker
ActivationTimer ==
  /\ page = "ready"
  /\ activationTimers > 0
  /\ activationTimers' = activationTimers - 1
  /\ body' = [body EXCEPT !.jsLoaded = TRUE]
  /\ LET w0 == [World EXCEPT !.classes = [id \in Universe |-> @[id] \cup {"visible"}]]
         w  == Construct(w0)
     IN  /\ Becomes(w)
         /\ penguinTracker' = IF w.uncaught THEN penguinTracker ELSE Len(w.trackers)
  /\ loaded' = [read |-> TRUE, afterSave |-> FALSE, from |-> storage,
                val |-> loadProgress(storage, storageThrows).val]
  /\ stray' = IF stray = "early" THEN "none" ELSE stray
  /\ UNCHANGED <<storageThrows, page, reloads, noClickCount, yesScale, btnNo, btnYes,
                 introSection, mainContent, scrollTimers, windowPenguinTracker,
                 secretSection, reveals>>

\* revealSecretSection()
revealSecretSection ==
  /\ secretSection' = [secretSection EXCEPT !.revealed = TRUE]
  /\ scrollTimers' = scrollTimers + 1
  /\ reveals' = reveals + 1

\* the 300 ms callback of allPenguinsFound
RevealTimer ==
  /\ page = "ready"
  /\ revealTimers > 0
  /\ revealTimers' = revealTimers - 1
  /\ revealSecretSection
  /\ uncaught' = FALSE
  /\ UNCHANGED <<envVars, gateVars, activationTimers, trackerVars, completionSignals,
                 discovered, loaded, lastWrite, stray>>

\* the 200 ms callback of revealSecretSection: scrollIntoView
ScrollTimer ==
  /\ page = "ready"
  /\ scrollTimers > 0
  /\ scrollTimers' = scrollTimers - 1
  /\ secretSection' = [secretSection EXCEPT !.scrolledTo = TRUE]
  /\ uncaught' = FALSE
  /\ UNCHANGED <<envVars, gateVars, activationTimers, revealTimers, trackerVars,
                 completionSignals, reveals, discovered, loaded, lastWrite, stray>>

\* reset() without foundPenguins.clear()
resetKeepsSet ==
  /\ page = "ready"
  /\ penguinTracker # 0
  /\ reloads < MaxReloads
  /\ LET saved == saveProgress(trackers[penguinTracker].foundPenguins, storage,
                               storageThrows)
     IN  /\ trackers' = trackers
         /\ storage' = saved.st
         /\ lastWrite' = IF storageThrows THEN lastWrite ELSE "saveProgress"
         /\ uncaught' = saved.exc
         /\ page' = IF saved.exc THEN page ELSE "reloading"
         /\ reloads' = IF saved.exc THEN reloads ELSE reloads + 1
  /\ UNCHANGED <<storageThrows, gateVars, timerVars, penguinTracker, windowPenguinTracker,
                 listeners, classes, penguinCount, counterShown, revealVars,
                 discovered, loaded, stray>>

\* reset() on the tracker the global penguinTracker names, as called from
\* the console; location.reload() then starts the page over
reset ==
  /\ page = "ready"
  /\ penguinTracker # 0
  /\ reloads < MaxReloads
  /\ LET saved == saveProgress(<<>>, storage, storageThrows)
     IN  /\ trackers' = [trackers EXCEPT ![penguinTracker].foundPenguins = <<>>]
         /\ storage' = saved.st
         /\ lastWrite' = IF storageThrows THEN lastWrite ELSE "saveProgress"
         /\ uncaught' = saved.exc
         /\ page' = IF saved.exc THEN page ELSE "reloading"
         /\ reloads' = IF saved.exc THEN reloads ELSE reloads + 1
  /\ UNCHANGED <<storageThrows, gateVars, timerVars, penguinTracker, windowPenguinTracker,
                 listeners, classes, penguinCount, counterShown, revealVars,
                 discovered, loaded, stray>>

Next ==
  \/ initPage
  \/ ClickNo
  \/ ClickYes
  \/ ActivationTimer
  \/ ClickPenguin
  \/ RevealTimer
  \/ ScrollTimer
  \/ reset

Spec == Init /\ [][Next]_vars

(***************************************************************************)
(* The page with callers and writers it does not control: any code may     *)
(* call handlePenguinClick on a tracker with any identifier, and another   *)
(* document of the same origin may write the entry before the tracker is   *)
(* constructed.  The gate is accepted without declines.                    *)
(***************************************************************************)
\* "ghost" names no element of the page
CallIds == Universe \cup {"ghost"}

\* a direct call of handlePenguinClick(id, event) on instance t
CallHandlerWith(t, id) ==
  /\ page = "ready"
  /\ completionSignals < MaxSignals
  /\ t \in 1..Len(trackers)
  /\ Becomes(handlePenguinClick(World, t, id))
  /\ UNCHANGED <<storageThrows, page, reloads, gateVars, activationTimers, scrollTimers,
                 penguinTracker, windowPenguinTracker, secretSection, reveals, loaded,
                 stray>>

CallHandler == \E t \in 1..MaxTrackers, id \in CallIds : CallHandlerWith(t, id)

\* another document writes localStorage['penguinsFound']
ForeignWrite ==
  /\ page = "ready"
  /\ penguinTracker = 0
  /\ ~storageThrows
  /\ \E v \in LeftoverTexts : storage' = v
  /\ lastWrite' = "foreign"
  /\ uncaught' = FALSE
  /\ UNCHANGED <<storageThrows, page, reloads, gateVars, timerVars, trackerVars,
                 revealVars, discovered, loaded, stray>>

NextOpen ==
  \/ initPage
  \/ ClickYes
  \/ ActivationTimer
  \/ ClickPenguin
  \/ RevealTimer
  \/ ScrollTimer
  \/ CallHandler
  \/ ForeignWrite

SpecOpen == Init /\ [][NextOpen]_vars

(***************************************************************************)
(* The page when the click listener of the Yes button can run again after  *)
(* an accept: the listener is never removed and handleYes has no guard, so *)
(* a second click event on the button (btnYes.click() from a script, or a  *)
(* key pressed twice while a transition of the stylesheet keeps the intro  *)
(* section rendered) runs handleYes again.                                 *)
(***************************************************************************)
NextTwice ==
  \/ initPage
  \/ DispatchYes
  \/ ActivationTimer
  \/ ClickPenguin
  \/ RevealTimer
  \/ ScrollTimer

SpecTwice == Init /\ [][NextTwice]_vars

(***************************************************************************)
(* A visitor at the gate who uses the pointer only, and who keeps clicking *)
(* the No button for as long as a pointer click reaches it, unless they    *)
(* accept.                                                                 *)
(***************************************************************************)
NextDecliner ==
  \/ initPage
  \/ ClickNoBy("pointer")
  \/ ClickYes
  \/ ActivationTimer

SpecDecliner ==
  /\ Init
  /\ [][NextDecliner]_vars
  /\ WF_vars(initPage)
  /\ WF_vars(ClickNoBy("pointer"))

(***************************************************************************)
(* The page with its timers: a pending setTimeout callback runs in the end *)
(* unless the page is reloaded first, and a load runs to its end.  The     *)
(* gate is accepted without declines, which the tracker never sees.        *)
(***************************************************************************)
NextTimers ==
  \/ initPage
  \/ ClickYes
  \/ ActivationTimer
  \/ ClickPenguin
  \/ RevealTimer
  \/ ScrollTimer
  \/ reset

SpecTimers ==
  /\ Init
  /\ [][NextTimers]_vars
  /\ WF_vars(initPage)
  /\ WF_vars(ActivationTimer)
  /\ WF_vars(RevealTimer)
  /\ WF_vars(ScrollTimer)

(***************************************************************************)
(* The persistence methods on their own: one tracker holding any set of    *)
(* valid identifiers, over an entry holding any text.                      *)
(***************************************************************************)
\* the sequences over S of length at most n
RECURSIVE SeqsUpTo(_, _)
SeqsUpTo(S, n) ==
  IF n = 0 THEN {<<>>}
  ELSE LET shorter == SeqsUpTo(S, n - 1)
       IN  shorter \cup {Append(q, x) : q \in shorter, x \in S}

\* the values a JS Set of valid identifiers can have
ValidSets == {q \in SeqsUpTo(Universe, Len(penguinIds)) : Cardinality(Range(q)) = Len(q)}

\* "#1" stands for the JS number 1
ForeignElements == {"penguin1", "penguin2", "ghost", "#1"}

\* texts the entry may hold: arrays well formed or not, and texts that are
\* no array at all
ForeignTexts ==
  {JSONstringify(a) : a \in SeqsUpTo(ForeignElements, MaxForeignLen)}
    \cup {Absent, EmptyText, <<Junk>>, <<NullTok>>, <<Literal("#1")>>,
          <<LBracket, Literal("penguin1")>>, <<LBracket, Literal("penguin1"), Comma, RBracket>>}

InitPersist ==
  /\ storage \in ForeignTexts
  /\ storageThrows \in BOOLEAN
  /\ page = "ready"
  /\ reloads = 0
  /\ noClickCount = 0
  /\ yesScale = One
  /\ btnNo = MarkupBtnNo
  /\ btnYes = MarkupBtnYes
  /\ introSection = MarkupIntro
  /\ mainContent = [hidden |-> TRUE]
  /\ body = [overflow |-> "hidden", jsLoaded |-> FALSE]
  /\ activationTimers = 0
  /\ revealTimers = 0
  /\ scrollTimers = 0
  /\ \E found \in ValidSets :
        trackers = <<[foundPenguins |-> found, penguinHandlers |-> {}]>>
  /\ penguinTracker = 1
  /\ windowPenguinTracker = 0
  /\ listeners = [id \in Universe |-> <<>>]
  /\ classes = [id \in Universe |-> {}]
  /\ penguinCount = -1
  /\ counterShown = FALSE
  /\ secretSection = MarkupSecret
  /\ completionSignals = 0
  /\ reveals = 0
  /\ discovered = {}
  /\ loaded = NotLoaded
  /\ lastWrite = "none"
  /\ stray = "none"
  /\ uncaught = FALSE

\* a call of loadProgress() on the entry as it is
LoadStep ==
  /\ ~loaded.read
  /\ LET l == loadProgress(storage, storageThrows)
     IN  /\ loaded' = [read |-> TRUE, afterSave |-> FALSE, from |-> storage, val |-> l.val]
         /\ uncaught' = l.exc
  /\ UNCHANGED <<envVars, gateVars, timerVars, trackerVars, revealVars, discovered,
                 lastWrite, stray>>

\* saveProgress() of the tracker, then loadProgress()
SaveLoadStep ==
  /\ ~loaded.read
  /\ LET s == saveProgress(trackers[1].foundPenguins, storage, storageThrows)
         l == loadProgress(s.st, storageThrows)
     IN  /\ storage' = s.st
         /\ lastWrite' = IF storageThrows THEN lastWrite ELSE "saveProgress"
         /\ loaded' = [read |-> TRUE, afterSave |-> TRUE, from |-> s.st, val |-> l.val]
         /\ uncaught' = (s.exc \/ l.exc)
  /\ UNCHANGED <<storageThrows, page, reloads, gateVars, timerVars, trackerVars,
                 revealVars, discovered, stray>>

NextPersist == LoadStep \/ SaveLoadStep

SpecPersist == InitPersist /\ [][NextPersist]_vars

(***************************************************************************)
(* Properties.                                                             *)
(***************************************************************************)
\* the identifiers of the universe that handlePenguinClick was called with
DistinctDiscovered == Cardinality(discovered \cap Universe)

\* C1: while the page runs, the size of foundPenguins and the count shown
\* by updatePenguinCountDisplay both equal the number of distinct valid
\* identifiers discovered so far, whatever the order of the clicks and
\* however often a penguin already found is clicked again.
CountIsDistinctDiscovered ==
  page = "ready" =>
    \A t \in 1..Len(trackers) :
      /\ SetSize(trackers[t].foundPenguins) = DistinctDiscovered
      /\ penguinCount = DistinctDiscovered

\* two penguins found out of order, and one of them clicked again
CountWitness ==
  /\ page = "ready"
  /\ Len(trackers) = 1
  /\ trackers[1].foundPenguins = <<"penguin4", "penguin2">>
  /\ stray = "found"
  /\ penguinCount = 2

\* the set of instance t
Found(t) == trackers[t].foundPenguins

\* C2: in a session allPenguinsFound is called at most once, its reveal is
\* scheduled once, and while the page runs it has been called exactly once
\* as soon as a tracker holds all five penguins, however many clicks land
\* on penguins afterwards.
CompletionSignalledOnce ==
  /\ completionSignals <= 1
  /\ revealTimers + reveals = completionSignals
  /\ page = "ready" /\ (\E t \in 1..Len(trackers) : IsComplete(Found(t)))
       => completionSignals = 1

\* the reveal has run and a penguin was clicked after the set was complete
CompletionWitness ==
  /\ completionSignals = 1
  /\ reveals = 1
  /\ stray = "complete"

OutsiderRejected ==
  [][\A t \in 1..MaxTrackers :
       CallHandlerWith(t, "ghost") =>
         uncaught' /\ trackers' = trackers /\ storage' = storage]_vars

\* C5 (as claimed): every Discovery Set is a subset of the universe and
\* holds at most five identifiers, whatever the entry held at construction.
FoundWithinUniverse ==
  \A t \in 1..Len(trackers) :
    /\ Range(Found(t)) \subseteq Universe
    /\ SetSize(Found(t)) <= Len(penguinIds)

\* the progress a tracker constructed now would load
Persisted == loadProgress(storage, storageThrows).val

\* C6 (as claimed): right after reset() the count is 0, the tracker is not
\* complete, the persisted progress is empty and every item has a click
\* handler, so that it can be discovered.
ResetMakesDiscoverable ==
  page = "reloading" =>
    /\ SetSize(Found(penguinTracker)) = 0
    /\ ~IsComplete(Found(penguinTracker))
    /\ Persisted = <<>>
    /\ \A id \in Universe : listeners[id] # <<>>

\* C6 (amended): right after reset() the count is 0, the tracker is not
\* complete and the persisted progress is empty (the empty list is stored
\* when the storage takes the write); in the session that follows the
\* reload, the tracker constructed once the gate is accepted again holds
\* only what was discovered since and has a click handler on every other
\* item.
ResetReturnsToStart ==
  /\ page = "reloading" =>
       /\ SetSize(Found(penguinTracker)) = 0
       /\ ~IsComplete(Found(penguinTracker))
       /\ Persisted = <<>>
       /\ ~storageThrows => storage = JSONstringify(<<>>)
  /\ page = "ready" /\ reloads > 0 /\ penguinTracker # 0 =>
       /\ Range(Found(penguinTracker)) = discovered
       /\ \A id \in Universe \ discovered : listeners[id] = <<penguinTracker>>

\* reset() called after all five were found and revealed
ResetWitness ==
  /\ page = "reloading"
  /\ penguinCount = 5
  /\ secretSection.revealed
  /\ Found(penguinTracker) = <<>>
  /\ lastWrite = "saveProgress"

IsIdList(text) ==
  /\ Len(text) >= 2
  /\ text[1] = LBracket
  /\ text[Len(text)] = RBracket
  /\ LET inner == SubSeq(text, 2, Len(text) - 1)
     IN  \/ inner = <<>>
         \/ /\ Len(inner) % 2 = 1
            /\ \A i \in 1..Len(inner) :
                 IF i % 2 = 1
                 THEN inner[i].k = "string" /\ inner[i].v \in Universe
                 ELSE inner[i] = Comma

\* C8 (as claimed): loadProgress raises nothing, and returns the empty set
\* when the entry is absent, the storage cannot be accessed, or the text is
\* not a serialized list of item identifiers.
LoadDegradesToEmpty ==
  loaded.read /\ ~loaded.afterSave =>
    /\ ~uncaught
    /\ (storageThrows \/ loaded.from = Absent \/ ~IsIdList(loaded.from))
         => loaded.val = <<>>

\* C9: with a storage that fails every write, while the page runs no handler
\* ends in an exception, every discovery is in the set and in the displayed
\* count, its listener is detached, and the fifth discovery signals
\* completion and schedules the reveal.
FailingSaveBlocksNothing ==
  storageThrows /\ page = "ready" =>
    /\ ~uncaught
    /\ \A t \in 1..Len(trackers) :
         /\ Range(Found(t)) = discovered
         /\ penguinCount = Cardinality(discovered)
         /\ \A id \in discovered :
              listeners[id] = <<>> /\ id \notin trackers[t].penguinHandlers
         /\ Cardinality(discovered) = Len(penguinIds) =>
              completionSignals = 1 /\ revealTimers + reveals = 1

\* all five found and revealed although nothing was ever written
FailingSaveWitness ==
  /\ storageThrows
  /\ page = "ready"
  /\ lastWrite = "none"
  /\ Cardinality(discovered) = 5
  /\ secretSection.revealed

\* handleYes has run in this session
Accepted == ~mainContent.hidden

AtLeast(a, b) == ~Greater(b, a)

\* C11 (as claimed): no call of handleNo lowers the decline count or the
\* scale applied to the Yes button, the call that enters the accept-only
\* state included, and none ends in an exception.
ScaleNeverShrinks ==
  [][ClickNo =>
       /\ noClickCount' >= noClickCount
       /\ AtLeast(btnYes'.transform, btnYes.transform)
       /\ ~uncaught']_vars

\* C11 (amended): every call of handleNo raises the decline count by one
\* and yesScale by 0.3 and ends without an exception; the scale applied to
\* the Yes button is yesScale, and so grows, until the call that takes
\* yesScale above 10, which expands the button to the viewport and sets its
\* scale back to 1.
ScaleGrowsUntilOnlyOption ==
  [][ClickNo =>
       /\ noClickCount' = noClickCount + 1
       /\ Greater(yesScale', yesScale)
       /\ ~uncaught'
       /\ IF Greater(yesScale', OnlyOptionThreshold)
          THEN btnYes'.fullScreen /\ btnYes'.transform = One
          ELSE /\ ~btnYes'.fullScreen
               /\ btnYes'.transform = yesScale'
               /\ Greater(btnYes'.transform, btnYes.transform)]_vars

\* the call that entered the accept-only state has run
OnlyOptionWitness ==
  /\ page = "ready"
  /\ noClickCount = 30
  /\ btnYes.fullScreen
  /\ btnYes.transform = One
  /\ Greater(yesScale, OnlyOptionThreshold)

\* makeYesOnlyOption has run: the No button is gone and the Yes button
\* fills the viewport
OnlyOption == btnNo.display = "none" /\ btnYes.fullScreen

\* C12 (as claimed): a visitor who keeps declining and does not accept
\* reaches the accept-only state in the end, although the No button stops
\* taking pointer clicks once yesScale is above 4.
DecliningReachesOnlyOption == <>(OnlyOption \/ Accepted)

\* C13 (as claimed): once yesScale is above the threshold at which the No
\* button is disabled, a click on the No button changes neither
\* noClickCount nor yesScale nor the text of the No button nor the styling
\* of the Yes button.
DisabledNoIsInert ==
  [][(Greater(yesScale, DisableThreshold) /\ ClickNo) =>
       /\ UNCHANGED <<noClickCount, yesScale, btnYes>>
       /\ btnNo'.textContent = btnNo.textContent]_vars

\* C14 (as claimed): once activatePenguins has constructed the tracker,
\* window.penguinTracker names that instance.
WindowNamesTracker ==
  page = "ready" /\ penguinTracker # 0 => windowPenguinTracker = penguinTracker

\* C15 (as claimed): whatever clicks reach the Yes button, two of them
\* before the first activation timer fires included, a session constructs
\* at most one tracker, and only after an accept; each penguin has at most
\* one click listener and the session at most one reveal.
OneTrackerPerSession ==
  /\ Len(trackers) <= 1
  /\ trackers # <<>> => Accepted
  /\ \A id \in Universe : Len(listeners[id]) <= 1
  /\ completionSignals <= 1
  /\ reveals <= 1

\* the 100 ms callback of handleYes has run in this session
Activated == body.jsLoaded

\* C16: as long as the deferred activation of handleYes has not run, no
\* tracker exists, nothing is discovered or revealed, and a click on a
\* penguin changes neither a Discovery Set nor the stored entry nor the
\* displayed count nor the reveal state.
NoDiscoveryBeforeActivation ==
  /\ [](page = "ready" /\ ~Activated =>
          /\ trackers = <<>>
          /\ discovered = {}
          /\ completionSignals = 0
          /\ ~secretSection.revealed)
  /\ [][(page = "ready" /\ ~Activated /\ ClickPenguin) =>
          UNCHANGED <<trackers, storage, penguinCount, counterShown, listeners,
                      revealTimers, completionSignals, secretSection, reveals>>]_vars

\* a penguin was clicked after the accept and before the activation
EarlyClickWitness ==
  /\ page = "ready"
  /\ Accepted
  /\ ~Activated
  /\ activationTimers = 1
  /\ stray = "early"
  /\ penguinCount = -1

\* C17: every page load removes the entry before a tracker can be
\* constructed (it stays only when the storage cannot be accessed at all),
\* so in every session the tracker reads no progress and its Discovery Set
\* is empty at construction, whatever the entry held before the load.
LoadClearsProgress ==
  /\ page = "ready" /\ trackers = <<>> /\ ~storageThrows => storage = Absent
  /\ loaded.read =>
       /\ loaded.val = <<>>
       /\ ~storageThrows => loaded.from = Absent
  /\ \A t \in 1..Len(trackers) : Range(Found(t)) \subseteq discovered

\* a tracker constructed in the session that follows a reload, the entry
\* written in the session before having been removed by the load
ClearedWitness ==
  /\ page = "ready"
  /\ reloads = 1
  /\ loaded.read
  /\ loaded.from = Absent
  /\ lastWrite = "removeItem"
  /\ penguinTracker # 0
  /\ Found(penguinTracker) = <<>>

\* the entry holds no progress and the set is empty, or the entry parses to
\* exactly the set
Mirrors(st, found) ==
  \/ st = Absent /\ found = <<>>
  \/ /\ st # Absent
     /\ JSONparse(st).kind = "array"
     /\ NewSet(JSONparse(st).arr) = found

\* C18: once the tracker is constructed, and while the storage takes
\* writes, between handlers the entry is absent with the set empty or
\* parses to exactly foundPenguins; after construction only a discovery and
\* reset() change the entry.
EntryMirrorsSet ==
  /\ [](penguinTracker # 0 /\ ~storageThrows =>
          Mirrors(storage, Found(penguinTracker)))
  /\ [][(page = "ready" /\ penguinTracker # 0 /\ storage' # storage) =>
          ClickPenguin \/ reset]_vars

\* two discoveries written to the entry in the order they were made
MirrorWitness ==
  /\ page = "ready"
  /\ penguinTracker # 0
  /\ Found(penguinTracker) = <<"penguin5", "penguin2">>
  /\ storage = JSONstringify(<<"penguin5", "penguin2">>)
  /\ lastWrite = "saveProgress"

\* item id has a handler of the tracker: one in penguinHandlers, attached
\* to the element
HasHandler(id) ==
  /\ id \in trackers[penguinTracker].penguinHandlers
  /\ listeners[id] = <<penguinTracker>>

\* item id has none: neither in penguinHandlers nor on the element
HasNoHandler(id) ==
  /\ id \notin trackers[penguinTracker].penguinHandlers
  /\ listeners[id] = <<>>

\* C19 (as claimed): from the construction of the tracker on, an item has a
\* click handler exactly when it is not in the Discovery Set, and a handler
\* once detached is never attached again.
HandlerIffNotFound ==
  /\ [](penguinTracker # 0 =>
          \A id \in Universe :
            IF SetHas(Found(penguinTracker), id) THEN HasNoHandler(id)
            ELSE HasHandler(id))
  /\ [][\A id \in Universe :
          (page = "ready" /\ penguinTracker # 0 /\ HasNoHandler(id) /\ page' = "ready")
            => listeners'[id] = <<>>]_vars

\* C19 (amended): while the page runs, an item has a click handler exactly
\* when it is not in the Discovery Set, and a handler once detached is
\* never attached again; reset() empties the set without attaching any
\* handler, so until the reload it starts the items found before are in
\* neither.
HandlerIffNotFoundUntilReset ==
  /\ [](page = "ready" /\ penguinTracker # 0 =>
          \A id \in Universe :
            IF SetHas(Found(penguinTracker), id) THEN HasNoHandler(id)
            ELSE HasHandler(id))
  /\ [](page = "reloading" =>
          /\ Found(penguinTracker) = <<>>
          /\ \A id \in Universe :
               IF id \in discovered THEN HasNoHandler(id) ELSE HasHandler(id))
  /\ [][\A id \in Universe :
          (page = "ready" /\ penguinTracker # 0 /\ HasNoHandler(id) /\ page' = "ready")
            => listeners'[id] = <<>>]_vars

\* three found and detached, two still listening, a found one clicked again
HandlerWitness ==
  /\ page = "ready"
  /\ penguinTracker # 0
  /\ Found(penguinTracker) = <<"penguin3", "penguin1", "penguin5">>
  /\ HasNoHandler("penguin1")
  /\ HasHandler("penguin2")
  /\ stray = "found"

\* the tracker of the page holds all five penguins
Complete == page = "ready" /\ penguinTracker # 0 /\ IsComplete(Found(penguinTracker))

=============================================================================
